---- MODULE Spec2Model ----
(***************************************************************************)
(* Model of Thor/preprocess/raw.py: RawTextPreprocessor reconstructs lines *)
(* of text from positioned words by matching them against the raw content  *)
(* stream strings of the same page.                                        *)
(*                                                                         *)
(* Conventions.  Strings are sequences of one-character strings.  Word and *)
(* stream indices are 1-based here (0-based in the source); character      *)
(* offsets (Match.start, Match.end) stay 0-based and half-open as in the   *)
(* source, so the character at offset p of a stream s is s[p + 1].         *)
(* A Match is [index, start, end]; the source's Match.data is the entity   *)
(* that index designates and is read through the index.                    *)
(* Coordinates are floats in the source; the model uses integers with even *)
(* widths and heights, so that centroids are integers, and compares the    *)
(* regression scores as exact fractions.                                   *)
(***************************************************************************)
EXTENDS Integers, Sequences, FiniteSets, TLC

MaxWords == 3
MaxStreams == 2

----------------------------------------------------------------------------
(* Inputs                                                                  *)

Rect(x, y, w, h) == [x |-> x, y |-> y, w |-> w, h |-> h]

R1 == Rect(0, 0, 2, 2)
R2 == Rect(4, 0, 2, 2)
R3 == Rect(2, 4, 2, 6)
R4 == Rect(4, 6, 2, 2)

Rects == {R1, R2, R3}

WordObj(t, r) == [t |-> t, x |-> r.x, y |-> r.y, w |-> r.w, h |-> r.h]

TextA == <<"a">>
TextB == <<"b">>
TextC == <<"c">>
TextAB == <<"a", "b">>

\* the word tokens a page is drawn from
WordPool ==
    { WordObj(TextA, R1), WordObj(TextA, R2), WordObj(TextB, R4),
      WordObj(TextAB, R3) }

\* the raw stream strings a page is drawn from: "", "a", "ab a"
StreamPool ==
    { <<>>, <<"a">>, <<"a", "b", " ", "a">> }

TextAA == <<"a", "a">>

\* the words and the raw stream strings the matching step is run on by
\* itself: "a", "aa", "ab" against "", "aaa", "ab a"
MatchWordPool ==
    { WordObj(TextA, R1), WordObj(TextAA, R2), WordObj(TextAB, R3) }

MatchStreamPool ==
    { <<>>, <<"a", "a", "a">>, <<"a", "b", " ", "a">> }

\* "ab a" followed by "b": the second stream takes a word from the first
StreamsABAThenB == << <<"a", "b", " ", "a">>, <<"b">> >>

\* "a b c"
StreamABC == <<"a", " ", "b", " ", "c">>

SeqUpTo(S, n) == UNION { [1..k -> S] : k \in 0..n }

----------------------------------------------------------------------------
(* Pure helpers                                                            *)

Min(S) == CHOOSE m \in S : \A k \in S : m <= k

RECURSIVE Flatten(_)
Flatten(ss) == IF ss = <<>> THEN <<>> ELSE Head(ss) \o Flatten(Tail(ss))

RECURSIVE SortedSeq(_)
SortedSeq(S) == IF S = {} THEN <<>> ELSE <<Min(S)>> \o SortedSeq(S \ {Min(S)})

RECURSIVE SumSeq(_)
SumSeq(q) == IF q = <<>> THEN 0 ELSE Head(q) + SumSeq(Tail(q))

Abs(v) == IF v < 0 THEN -v ELSE v

\* the subsequence of q at the ascending index sequence p
PickSeq(q, p) == [k \in 1..Len(p) |-> q[p[k]]]

\* the word indices a match list references
Indices(matches) == { matches[k].index : k \in 1..Len(matches) }

(* Rectangle.__or__: the smallest rectangle enclosing both                 *)
RectUnion(a, b) ==
    LET x0 == IF a.x < b.x THEN a.x ELSE b.x
        y0 == IF a.y < b.y THEN a.y ELSE b.y
        x1 == IF a.x + a.w > b.x + b.w THEN a.x + a.w ELSE b.x + b.w
        y1 == IF a.y + a.h > b.y + b.h THEN a.y + a.h ELSE b.y + b.h
    IN  Rect(x0, y0, x1 - x0, y1 - y0)

(* Word.rectangle                                                          *)
Rectangle(word) == Rect(word.x, word.y, word.w, word.h)

----------------------------------------------------------------------------
(* Stream.find_word and the matching step                                  *)

OccursAt(stream, t, i) ==
    /\ i + Len(t) <= Len(stream)
    /\ \A k \in 1..Len(t) : stream[i + k] = t[k]

\* str.find(t, start_pos): the lowest offset >= start_pos, or -1
Find(stream, t, start_pos) ==
    LET hits == { i \in start_pos..(Len(stream) - Len(t)) : OccursAt(stream, t, i) }
    IN  IF hits = {} THEN -1 ELSE Min(hits)

\* the scan resumes after the end of the hit: overlapping occurrences are
\* passed over
RECURSIVE FindWordFromPastHit(_, _, _)
FindWordFromPastHit(stream, t, start_pos) ==
    IF start_pos < Len(stream)
    THEN LET ix == Find(stream, t, start_pos)
         IN  IF ix = -1 THEN <<>>
             ELSE <<ix>> \o FindWordFromPastHit(stream, t, ix + Len(t))
    ELSE <<>>

RECURSIVE FindWordFrom(_, _, _)
FindWordFrom(stream, t, start_pos) ==
    IF start_pos < Len(stream)
    THEN LET ix == Find(stream, t, start_pos)
         IN  IF ix = -1 THEN <<>>
             ELSE <<ix>> \o FindWordFrom(stream, t, ix + 1)
    ELSE <<>>

FindWord(stream, t) == FindWordFrom(stream, t, 0)

Match(index, start, end) == [index |-> index, start |-> start, end |-> end]

MatchesAt(index, offsets, len) ==
    [k \in 1..Len(offsets) |-> Match(index, offsets[k], offsets[k] + len)]

\* word.matches after _associate_word_with_stream
AssociateWords(ws, ss) ==
    [w \in 1..Len(ws) |->
        Flatten([s \in 1..Len(ss) |->
            MatchesAt(s, FindWord(ss[s], ws[w].t), Len(ws[w].t))])]

\* stream.matches after _associate_word_with_stream
AssociateStreams(ws, ss) ==
    [s \in 1..Len(ss) |->
        Flatten([w \in 1..Len(ws) |->
            MatchesAt(w, FindWord(ss[s], ws[w].t), Len(ws[w].t))])]

----------------------------------------------------------------------------
(* Stream._may_reconstruct_by and Stream.may_merge                         *)

Counter(stream, matches) ==
    [ix \in 0..(Len(stream) - 1) |->
        Cardinality({ k \in 1..Len(matches) :
                        matches[k].start <= ix /\ ix < matches[k].end })]

\* the overlap test left out: counter[ix] > 1 is let through
MayReconstructByOverlap(stream, matches) ==
    IF Len(matches) = 0 THEN FALSE
    ELSE LET counter == Counter(stream, matches)
         IN  \A ix \in 0..(Len(stream) - 1) :
                ~(counter[ix] = 0 /\ stream[ix + 1] # " ")

\* the space exemption left out: any uncovered position fails
MayReconstructByNoGap(stream, matches) ==
    IF Len(matches) = 0 THEN FALSE
    ELSE LET counter == Counter(stream, matches)
         IN  \A ix \in 0..(Len(stream) - 1) :
                /\ ~(counter[ix] > 1)
                /\ ~(counter[ix] = 0)

\* the test of the empty match list left out
MayReconstructByEmpty(stream, matches) ==
    LET counter == Counter(stream, matches)
    IN  \A ix \in 0..(Len(stream) - 1) :
            /\ ~(counter[ix] > 1)
            /\ ~(counter[ix] = 0 /\ stream[ix + 1] # " ")

MayReconstructBy(stream, matches) ==
    IF Len(matches) = 0 THEN FALSE
    ELSE LET counter == Counter(stream, matches)
         IN  \A ix \in 0..(Len(stream) - 1) :
                /\ ~(counter[ix] > 1)
                /\ ~(counter[ix] = 0 /\ stream[ix + 1] # " ")

\* the cached flag ignored: the validator runs on every call
MayMergeNoCache(flag, stream, matches) ==
    LET r == MayReconstructBy(stream, matches)
    IN  [ret |-> r, flag |-> r, recomputed |-> TRUE]

\* the validator never consulted: every stream may be merged
MayMergeAlways(flag, stream, matches) ==
    [ret |-> TRUE, flag |-> TRUE, recomputed |-> FALSE]

\* ret: the value returned; flag: _may_merge afterwards; recomputed: whether
\* _may_reconstruct_by ran
MayMerge(flag, stream, matches) ==
    IF flag
    THEN [ret |-> TRUE, flag |-> TRUE, recomputed |-> FALSE]
    ELSE LET r == MayReconstructBy(stream, matches)
         IN  [ret |-> r, flag |-> r, recomputed |-> TRUE]

----------------------------------------------------------------------------
(* Stream.discard_outliers                                                 *)

\* Point(x + w / 2, y + h / 2) of the word a stream match points at
Centroid(ws, m) ==
    [x |-> ws[m.index].x + ws[m.index].w \div 2,
     y |-> ws[m.index].y + ws[m.index].h \div 2]

\* every order-preserving pick of num_pick indices out of 0..n-1 (here 1..n),
\* num_pick in 2..n-1, as ascending index sequences
Picks(n) ==
    { LET picked(i) == i \in c IN SelectSeq([i \in 1..n |-> i], picked) :
        c \in { d \in SUBSET (1..n) :
                  Cardinality(d) >= 2 /\ Cardinality(d) <= n - 1 } }

LexLess(p, q) ==
    \E i \in 1..Len(p) : p[i] < q[i] /\ \A j \in 1..(i - 1) : p[j] = q[j]

\* p is enumerated before q by the two nested loops
Precedes(p, q) ==
    \/ Len(p) < Len(q)
    \/ Len(p) = Len(q) /\ LexLess(p, q)

(* The simple linear regression over the points, scaled by num_pick so as  *)
(* to stay in the integers: with dx = n(x - m.x) and dy = n(y - m.y),      *)
(*   b = sum(dx * dy) / sum(dx * dx)        (numB / denB)                  *)
(*   a = |m.y - b * m.x| = |sy * denB - numB * sx| / (n * denB)            *)
Regression(points) ==
    LET n == Len(points)
        sx == SumSeq([k \in 1..n |-> points[k].x])
        sy == SumSeq([k \in 1..n |-> points[k].y])
        numB == SumSeq([k \in 1..n |->
                    (n * points[k].x - sx) * (n * points[k].y - sy)])
        denB == SumSeq([k \in 1..n |->
                    (n * points[k].x - sx) * (n * points[k].x - sx)])
    IN  [denB |-> denB, num |-> Abs(sy * denB - numB * sx), den |-> n * denB]

\* the comparison never succeeds after the first: the subsequence met first
\* is kept whatever its score
ScoreLessNever(p, q) == FALSE

\* a < a' on the fractions num / den (den > 0)
ScoreLess(p, q) == p.num * q.den < q.num * p.den

\* the search gives up at once: no subsequence is tried
DiscardOutliersNever(ws, stream, matches) ==
    [raised |-> FALSE, ret |-> FALSE, matches |-> matches]

\* the picks start at one index and the floor is two matches
DiscardOutliersFromOne(ws, stream, matches) ==
    LET num_matches == Len(matches)
        centroids == [k \in 1..num_matches |-> Centroid(ws, matches[k])]
        valid == { p \in Picks(num_matches) \cup { <<i>> : i \in 1..num_matches } :
                     MayReconstructBy(stream, PickSeq(matches, p)) }
        reg == [p \in valid |-> Regression(PickSeq(centroids, p))]
        least == { p \in valid : \A q \in valid : ~ScoreLess(reg[q], reg[p]) }
        best_matches == CHOOSE p \in least : \A q \in least \ {p} : Precedes(p, q)
    IN  IF num_matches < 2
        THEN [raised |-> FALSE, ret |-> FALSE, matches |-> matches]
        ELSE IF \E p \in valid : reg[p].denB = 0
        THEN [raised |-> TRUE, ret |-> FALSE, matches |-> matches]
        ELSE IF valid = {}
        THEN [raised |-> FALSE, ret |-> FALSE, matches |-> matches]
        ELSE [raised |-> FALSE, ret |-> TRUE,
              matches |-> PickSeq(matches, best_matches)]

\* raised: ZeroDivisionError left the method; ret: the value returned;
\* matches: self.matches afterwards
DiscardOutliers(ws, stream, matches) ==
    LET num_matches == Len(matches)
        centroids == [k \in 1..num_matches |-> Centroid(ws, matches[k])]
        valid == { p \in Picks(num_matches) :
                     MayReconstructBy(stream, PickSeq(matches, p)) }
        reg == [p \in valid |-> Regression(PickSeq(centroids, p))]
        \* the picks no other pick beats, and among them the one met first
        least == { p \in valid : \A q \in valid : ~ScoreLess(reg[q], reg[p]) }
        best_matches == CHOOSE p \in least : \A q \in least \ {p} : Precedes(p, q)
    IN  IF num_matches < 3
        THEN [raised |-> FALSE, ret |-> FALSE, matches |-> matches]
        ELSE IF \E p \in valid : reg[p].denB = 0
        THEN [raised |-> TRUE, ret |-> FALSE, matches |-> matches]
        ELSE IF valid = {}
        THEN [raised |-> FALSE, ret |-> FALSE, matches |-> matches]
        ELSE [raised |-> FALSE, ret |-> TRUE,
              matches |-> PickSeq(matches, best_matches)]

----------------------------------------------------------------------------
(* RawTextPreprocessor._merge_words_of_stream                              *)

RECURSIVE UnionFrom(_, _, _)
UnionFrom(ws, word_indices, union) ==
    IF word_indices = <<>> THEN union
    ELSE UnionFrom(ws, Tail(word_indices),
                   RectUnion(union, Rectangle(ws[Head(word_indices)])))

\* the first word's rectangle alone: the loop over word_indices left out
UnionOfFirst(ws, word_indices) == Rectangle(ws[word_indices[1]])

\* union = words[word_indices[0]].rectangle, then union |= every word's
UnionOf(ws, word_indices) ==
    UnionFrom(ws, word_indices, Rectangle(ws[word_indices[1]]))

\* the consumed words keep all their matches
PruneWordsNone(wm, raw_stream_ix, consumed) == wm

\* each consumed word keeps only its matches that point at the merged stream
PruneWords(wm, raw_stream_ix, consumed) ==
    LET keeps(m) == m.index = raw_stream_ix
    IN  [w \in DOMAIN wm |->
            IF w \in consumed THEN SelectSeq(wm[w], keeps) ELSE wm[w]]

\* the other streams are left as they are
PruneStreamsNone(sm, raw_stream_ix, consumed) == sm

\* the filter compares with the index of the merged stream instead of the
\* indices of the consumed words
PruneStreamsByStreamIndex(sm, raw_stream_ix, consumed) ==
    LET other(m) == m.index # raw_stream_ix
    IN  [s \in DOMAIN sm |->
            IF s = raw_stream_ix THEN sm[s] ELSE SelectSeq(sm[s], other)]

\* every other stream loses its matches that point at a consumed word
PruneStreams(sm, raw_stream_ix, consumed) ==
    LET other(m) == m.index \notin consumed
    IN  [s \in DOMAIN sm |->
            IF s = raw_stream_ix THEN sm[s] ELSE SelectSeq(sm[s], other)]

\* error: "" or the exception that left the method; flag: the stream's
\* _may_merge afterwards; wm, sm: the words' and the streams' match lists
\* afterwards; token: the dict returned (none when an exception was raised)
MergeWordsOfStream(ws, ss, flags, wm, sm, raw_stream_ix) ==
    LET mm == MayMerge(flags[raw_stream_ix], ss[raw_stream_ix], sm[raw_stream_ix])
        word_indices == [k \in 1..Len(sm[raw_stream_ix]) |-> sm[raw_stream_ix][k].index]
        consumed == { word_indices[k] : k \in 1..Len(word_indices) }
        union == UnionOf(ws, word_indices)
    IN  IF ~mm.ret
        THEN [error |-> "RawTextPreprocessorException", flag |-> mm.flag,
              wm |-> wm, sm |-> sm, token |-> <<>>]
        ELSE IF word_indices = <<>>
        THEN [error |-> "IndexError", flag |-> mm.flag,
              wm |-> wm, sm |-> sm, token |-> <<>>]
        ELSE [error |-> "", flag |-> mm.flag,
              wm |-> PruneWords(wm, raw_stream_ix, consumed),
              sm |-> PruneStreams(sm, raw_stream_ix, consumed),
              token |-> <<[x |-> union.x, y |-> union.y, w |-> union.w,
                           h |-> union.h, t |-> ss[raw_stream_ix]]>>]

----------------
(* State                                                                   *)

VARIABLES
    words,              \* the page's words (Word._word_obj), never changed
    raw_streams,        \* the raw stream strings (Stream._stream), never changed
    word_matches,       \* Word.matches of every word
    stream_matches,     \* Stream.matches of every stream
    may_merge,          \* Stream._may_merge of every stream
    can_merge_streams,  \* run(): the resolved stream indices
    ret_words,          \* run(): ret.words
    keep_merging,       \* run(): the loop flag
    stream_ix,          \* run(): the position of the for loop
    pc,                 \* run(): where the call stands
    passes,             \* history: the passes of the while loop begun so far
    resolved,           \* history: the resolved streams in the order they were added
    last                \* history: what the last step or call did

vars == <<words, raw_streams, word_matches, stream_matches, may_merge,
          can_merge_streams, ret_words, keep_merging, stream_ix, pc, passes,
          resolved, last>>

\* op: the step or method; stream: the stream it was about; searched: whether
\* discard_outliers ran; ret: what discard_outliers (in a visit) or the method
\* returned; recomputed: whether the first may_merge() ran the validator;
\* error: the exception raised; before: the stream's match list beforehand;
\* token: the token the commit returned
NoCall == [op |-> "", stream |-> 0, searched |-> FALSE, ret |-> FALSE,
           recomputed |-> FALSE, error |-> "", before |-> <<>>, token |-> <<>>]

\* the words of the page and the raw streams of the same page
InitPage ==
    \/ /\ words \in SeqUpTo(WordPool, MaxWords)
       /\ raw_streams \in SeqUpTo(StreamPool, MaxStreams)
    \/ /\ words \in { <<WordObj(TextA, ra), WordObj(TextB, rb), WordObj(TextC, rc)>> :
                        ra \in Rects, rb \in Rects, rc \in Rects }
       /\ raw_streams = <<StreamABC>>
    \/ /\ words \in SeqUpTo({WordObj(TextAB, R3), WordObj(TextB, R4)}, MaxWords)
       /\ raw_streams = StreamsABAThenB

\* RawTextPreprocessor.__init__, then the first lines of run()
InitObjects ==
    /\ word_matches = AssociateWords(words, raw_streams)
    /\ stream_matches = AssociateStreams(words, raw_streams)
    /\ may_merge = [s \in 1..Len(raw_streams) |-> FALSE]
    /\ can_merge_streams = {}
    /\ ret_words = <<>>
    /\ keep_merging = TRUE
    /\ stream_ix = 0
    /\ passes = 0
    /\ resolved = <<>>
    /\ last = NoCall

Init == InitPage /\ InitObjects /\ pc = "while"

----------------------------------------------------------------------------
(* RawTextPreprocessor.run                                                 *)

\* while keep_merging: keep_merging = False, and the for loop starts
StartPass ==
    /\ pc = "while"
    /\ keep_merging
    /\ keep_merging' = FALSE
    /\ stream_ix' = 1
    /\ passes' = passes + 1
    /\ pc' = "for"
    /\ last' = NoCall
    /\ UNCHANGED <<words, raw_streams, word_matches, stream_matches, may_merge,
                   can_merge_streams, ret_words, resolved>>

\* every stream counts as unresolved: the membership test left out
UnresolvedAlways(s, streams) == TRUE

\* if stream_ix not in can_merge_streams
Unresolved(s, streams) == s \notin streams

\* the body of the for loop for one stream
Visit ==
    /\ pc = "for"
    /\ stream_ix <= Len(raw_streams)
    /\ \E s \in {stream_ix} :
       \E mm1 \in {MayMerge(may_merge[s], raw_streams[s], stream_matches[s])} :
       \E do \in {IF mm1.ret
                  THEN [raised |-> FALSE, ret |-> FALSE, matches |-> stream_matches[s]]
                  ELSE DiscardOutliers(words, raw_streams[s], stream_matches[s])} :
       \E sm1 \in {[stream_matches EXCEPT ![s] = do.matches]} :
       \E mm2 \in {MayMerge(mm1.flag, raw_streams[s], sm1[s])} :
       \E flags2 \in {[may_merge EXCEPT ![s] = mm2.flag]} :
       \E mg \in {MergeWordsOfStream(words, raw_streams, flags2, word_matches, sm1, s)} :
       LET seen == [op |-> "visit", stream |-> s, searched |-> ~mm1.ret,
                    ret |-> do.ret, recomputed |-> mm1.recomputed, error |-> "",
                    before |-> stream_matches[s], token |-> <<>>]
       IN  IF ~Unresolved(s, can_merge_streams)
           THEN /\ stream_ix' = s + 1
                /\ last' = NoCall
                /\ UNCHANGED <<word_matches, stream_matches, may_merge,
                               can_merge_streams, ret_words, keep_merging, pc,
                               resolved>>
           ELSE IF do.raised
           THEN /\ pc' = "crashed"
                /\ may_merge' = [may_merge EXCEPT ![s] = mm1.flag]
                /\ last' = [seen EXCEPT !.error = "ZeroDivisionError"]
                /\ UNCHANGED <<word_matches, stream_matches, can_merge_streams,
                               ret_words, keep_merging, stream_ix, resolved>>
           ELSE IF ~mm2.ret
           THEN /\ stream_matches' = sm1
                /\ may_merge' = flags2
                /\ stream_ix' = s + 1
                /\ last' = seen
                /\ UNCHANGED <<word_matches, can_merge_streams, ret_words,
                               keep_merging, pc, resolved>>
           ELSE IF mg.error # ""
           THEN /\ pc' = "crashed"
                /\ can_merge_streams' = can_merge_streams \cup {s}
                /\ resolved' = Append(resolved, s)
                /\ stream_matches' = mg.sm
                /\ word_matches' = mg.wm
                /\ may_merge' = [flags2 EXCEPT ![s] = mg.flag]
                /\ last' = [seen EXCEPT !.error = mg.error]
                /\ UNCHANGED <<ret_words, keep_merging, stream_ix>>
           ELSE /\ can_merge_streams' = can_merge_streams \cup {s}
                /\ resolved' = Append(resolved, s)
                /\ ret_words' = ret_words \o mg.token
                /\ keep_merging' = TRUE
                /\ stream_matches' = mg.sm
                /\ word_matches' = mg.wm
                /\ may_merge' = [flags2 EXCEPT ![s] = mg.flag]
                /\ stream_ix' = s + 1
                /\ last' = [seen EXCEPT !.token = mg.token]
                /\ UNCHANGED pc
    /\ UNCHANGED <<words, raw_streams, passes>>

\* the for loop is exhausted: back to the test of the while loop
EndPass ==
    /\ pc = "for"
    /\ stream_ix > Len(raw_streams)
    /\ pc' = "while"
    /\ last' = NoCall
    /\ UNCHANGED <<words, raw_streams, word_matches, stream_matches, may_merge,
                   can_merge_streams, ret_words, keep_merging, stream_ix, passes,
                   resolved>>

\* flags[match.index] = False for every match of every resolved stream
Flags ==
    [w \in 1..Len(words) |->
        ~\E s \in can_merge_streams : w \in Indices(stream_matches[s])]

\* every word, claimed or not
LeftoverAll == words

\* the words whose flag is still set, in their original order
Leftover ==
    LET kept(w) == Flags[w]
        ixs == SelectSeq([w \in 1..Len(words) |-> w], kept)
    IN  [k \in 1..Len(ixs) |-> words[ixs[k]]]

\* the while loop ends: the unclaimed words are appended and run() returns
Finish ==
    /\ pc = "while"
    /\ ~keep_merging
    /\ ret_words' = ret_words \o Leftover
    /\ pc' = "done"
    /\ last' = NoCall
    /\ UNCHANGED <<words, raw_streams, word_matches, stream_matches, may_merge,
                   can_merge_streams, keep_merging, stream_ix, passes, resolved>>

Next == StartPass \/ Visit \/ EndPass \/ Finish

Spec == Init /\ [][Next]_vars

----------------------------------------------------------------------------
(* The methods called one at a time, in any order, on a constructed        *)
(* preprocessor (a caller that catches the exceptions and goes on)         *)

InitApi == InitPage /\ InitObjects /\ pc = "api"

\* stream.may_merge()
CallMayMerge(s) ==
    /\ pc = "api"
    /\ \E mm \in {MayMerge(may_merge[s], raw_streams[s], stream_matches[s])} :
        /\ may_merge' = [may_merge EXCEPT ![s] = mm.flag]
        /\ last' = [op |-> "may_merge", stream |-> s, searched |-> FALSE,
                    ret |-> mm.ret,
                    recomputed |-> mm.recomputed, error |-> "",
                    before |-> stream_matches[s], token |-> <<>>]
    /\ UNCHANGED <<words, raw_streams, word_matches, stream_matches,
                   can_merge_streams, ret_words, keep_merging, stream_ix, pc,
                   passes, resolved>>

\* stream.discard_outliers()
CallDiscardOutliers(s) ==
    /\ pc = "api"
    /\ \E do \in {DiscardOutliers(words, raw_streams[s], stream_matches[s])} :
        /\ stream_matches' = [stream_matches EXCEPT ![s] = do.matches]
        /\ last' = [op |-> "discard_outliers", stream |-> s, searched |-> TRUE,
                    ret |-> do.ret,
                    recomputed |-> FALSE,
                    error |-> IF do.raised THEN "ZeroDivisionError" ELSE "",
                    before |-> stream_matches[s], token |-> <<>>]
    /\ UNCHANGED <<words, raw_streams, word_matches, may_merge,
                   can_merge_streams, ret_words, keep_merging, stream_ix, pc,
                   passes, resolved>>

\* preprocessor._merge_words_of_stream(s)
CallMergeWordsOfStream(s) ==
    /\ pc = "api"
    /\ \E mg \in {MergeWordsOfStream(words, raw_streams, may_merge,
                                     word_matches, stream_matches, s)} :
        /\ may_merge' = [may_merge EXCEPT ![s] = mg.flag]
        /\ word_matches' = mg.wm
        /\ stream_matches' = mg.sm
        /\ last' = [op |-> "merge", stream |-> s, searched |-> FALSE,
                    ret |-> mg.error = "",
                    recomputed |-> ~may_merge[s], error |-> mg.error,
                    before |-> stream_matches[s], token |-> mg.token]
    /\ UNCHANGED <<words, raw_streams, can_merge_streams, ret_words,
                   keep_merging, stream_ix, pc, passes, resolved>>

NextApi ==
    \/ \E s \in 1..Len(raw_streams) : CallMayMerge(s)
    \/ \E s \in 1..Len(raw_streams) : CallDiscardOutliers(s)
    \/ \E s \in 1..Len(raw_streams) : CallMergeWordsOfStream(s)

SpecApi == InitApi /\ [][NextApi]_vars

----------------------------------------------------------------------------
(* The matching step by itself: RawTextPreprocessor.__init__ on a page of  *)
(* words and raw streams whose texts repeat and overlap                    *)

\* map(Word, page.words) and map(Stream, ...): no match recorded yet
InitMatch ==
    /\ words \in SeqUpTo(MatchWordPool, MaxWords)
    /\ raw_streams \in SeqUpTo(MatchStreamPool, MaxStreams)
    /\ word_matches = [w \in 1..Len(words) |-> <<>>]
    /\ stream_matches = [s \in 1..Len(raw_streams) |-> <<>>]
    /\ may_merge = [s \in 1..Len(raw_streams) |-> FALSE]
    /\ can_merge_streams = {}
    /\ ret_words = <<>>
    /\ keep_merging = TRUE
    /\ stream_ix = 0
    /\ passes = 0
    /\ resolved = <<>>
    /\ last = NoCall
    /\ pc = "new"

\* _associate_word_with_stream()
AssociateWordWithStream ==
    /\ pc = "new"
    /\ word_matches' = AssociateWords(words, raw_streams)
    /\ stream_matches' = AssociateStreams(words, raw_streams)
    /\ pc' = "while"
    /\ UNCHANGED <<words, raw_streams, may_merge, can_merge_streams, ret_words,
                   keep_merging, stream_ix, passes, resolved, last>>

NextMatch == AssociateWordWithStream

SpecMatch == InitMatch /\ [][NextMatch]_vars

----------------------------------------------------------------------------
(* Vocabulary of the properties, stated apart from the operators above     *)

Max(S) == CHOOSE m \in S : \A k \in S : m >= k

\* the match m covers the character position pos
Covers(m, pos) == m.start <= pos /\ pos < m.end

\* no position lies in two matches, and a position in no match is a space
Tiles(stream, matches) ==
    \A pos \in 0..(Len(stream) - 1) :
        /\ ~\E i, j \in 1..Len(matches) :
                i # j /\ Covers(matches[i], pos) /\ Covers(matches[j], pos)
        /\ (\A i \in 1..Len(matches) : ~Covers(matches[i], pos))
                => stream[pos + 1] = " "

\* every order-preserving subsequence of 1..n, the empty and the full one too
AllPicks(n) ==
    { LET picked(i) == i \in c IN SelectSeq([i \in 1..n |-> i], picked) :
        c \in SUBSET (1..n) }

\* the match lists right after the matching step
InitialStreamMatches == AssociateStreams(words, raw_streams)

\* the smallest rectangle enclosing the rectangles of the words in S
EnclosingRect(S) ==
    LET x0 == Min({ words[w].x : w \in S })
        y0 == Min({ words[w].y : w \in S })
        x1 == Max({ words[w].x + words[w].w : w \in S })
        y1 == Max({ words[w].y + words[w].h : w \in S })
    IN  Rect(x0, y0, x1 - x0, y1 - y0)

ContainsRect(outer, inner) ==
    /\ outer.x <= inner.x
    /\ outer.y <= inner.y
    /\ inner.x + inner.w <= outer.x + outer.w
    /\ inner.y + inner.h <= outer.y + outer.h

\* the words no resolved stream references
Unclaimed ==
    { w \in 1..Len(words) :
        \A s \in can_merge_streams :
            \A k \in 1..Len(stream_matches[s]) : stream_matches[s][k].index # w }

\* the step just taken committed a merge
Committed == last.op = "visit" /\ last.token # <<>>

----------------------------------------------------------------------------
(* C1: partition exclusivity.  When run() has finished, no word index is   *)
(* referenced by the match lists of two different resolved streams.        *)
PartitionExclusivity ==
    pc = "done" =>
        \A s1, s2 \in can_merge_streams :
            s1 # s2 =>
                Indices(stream_matches[s1]) \cap Indices(stream_matches[s2]) = {}

\* run() has finished with two resolved streams that both matched one word
\* after the matching step
PartitionExclusivityWitness ==
    /\ pc = "done"
    /\ \E s1, s2 \in can_merge_streams :
        /\ s1 # s2
        /\ Indices(InitialStreamMatches[s1]) \cap Indices(InitialStreamMatches[s2]) # {}
        /\ raw_streams[s1] # raw_streams[s2]

(* C2: output composition.  When run() has finished, ret.words is the      *)
(* merged tokens in the order their streams were resolved, followed by     *)
(* exactly the words no resolved stream references, each once, unchanged,  *)
(* in their original order.                                                *)
OutputComposition ==
    pc = "done" =>
        LET n == Len(resolved)
        IN  /\ Len(ret_words) = n + Cardinality(Unclaimed)
            /\ { resolved[k] : k \in 1..n } = can_merge_streams
            /\ \A k \in 1..n :
                /\ ret_words[k].t = raw_streams[resolved[k]]
                /\ Rectangle(ret_words[k]) =
                        EnclosingRect(Indices(stream_matches[resolved[k]]))
            /\ \A w \in Unclaimed :
                ret_words[n + Cardinality({ v \in Unclaimed : v <= w })] = words[w]

\* run() has finished with a merged token and with a word left over that
\* stands before a merged word on the page
OutputCompositionWitness ==
    /\ pc = "done"
    /\ Len(resolved) >= 1
    /\ \E w \in Unclaimed : \E v \in 1..Len(words) : v \notin Unclaimed /\ w < v

(* C3: a merged token.  The token a commit produces has the stream's full  *)
(* string as its text and, as its rectangle, the smallest rectangle        *)
(* enclosing the rectangles of exactly the words the stream's match list   *)
(* references at commit time; it contains each of those rectangles.        *)
MergedTokenIsUnion ==
    Committed =>
        LET s == last.stream
            tok == last.token[1]
            S == Indices(stream_matches[s])
        IN  /\ tok.t = raw_streams[s]
            /\ Rectangle(tok) = EnclosingRect(S)
            /\ \A w \in S : ContainsRect(Rectangle(tok), Rectangle(words[w]))
            /\ ret_words[Len(ret_words)] = tok

\* a commit, after an outlier search that removed matches, of words whose
\* union is the rectangle of none of them
MergedTokenIsUnionWitness ==
    /\ Committed
    /\ last.ret
    /\ \A w \in Indices(stream_matches[last.stream]) :
            Rectangle(words[w]) # Rectangle(last.token[1])

(* C4: the coverage validator.  As claimed: for every stream and every     *)
(* candidate match set, _may_reconstruct_by is true iff no position lies   *)
(* in more than one match and every position in no match is a space.       *)
ValidatorIffTiles ==
    \A s \in 1..Len(raw_streams) :
        \A p \in AllPicks(Len(stream_matches[s])) :
            MayReconstructBy(raw_streams[s], PickSeq(stream_matches[s], p))
                <=> Tiles(raw_streams[s], PickSeq(stream_matches[s], p))

(* C4 as amended: _may_reconstruct_by is true iff the candidate match set  *)
(* is not empty and no position lies in more than one match and every      *)
(* position in no match is a space.                                        *)
ValidatorIffNonEmptyTiles ==
    \A s \in 1..Len(raw_streams) :
        \A p \in AllPicks(Len(stream_matches[s])) :
            MayReconstructBy(raw_streams[s], PickSeq(stream_matches[s], p))
                <=> /\ p # <<>>
                    /\ Tiles(raw_streams[s], PickSeq(stream_matches[s], p))

\* a stream whose match list validates with a space no match covers, and a
\* proper part of that list that does not
ValidatorWitness ==
    \E s \in 1..Len(raw_streams) :
        /\ MayReconstructBy(raw_streams[s], stream_matches[s])
        /\ \E pos \in 0..(Len(raw_streams[s]) - 1) :
                \A k \in 1..Len(stream_matches[s]) : ~Covers(stream_matches[s][k], pos)
        /\ \E p \in AllPicks(Len(stream_matches[s])) :
                /\ p # <<>>
                /\ ~MayReconstructBy(raw_streams[s], PickSeq(stream_matches[s], p))

(* C5: sticky validity cache.  Once may_merge() has returned true for a    *)
(* stream (its _may_merge flag is set), the flag is never set back, and    *)
(* every later may_merge() call on it returns true without running the     *)
(* validator, whatever has become of its match list.                       *)
StickyValidity ==
    [][\A s \in 1..Len(raw_streams) :
          may_merge[s] =>
              /\ may_merge'[s]
              /\ (last'.op = "may_merge" /\ last'.stream = s)
                    => (last'.ret /\ ~last'.recomputed)]_vars

\* may_merge() has just answered true from the cache for a stream whose
\* match list has since been reduced and no longer validates
StickyValidityWitness ==
    /\ last.op = "may_merge"
    /\ last.ret
    /\ ~last.recomputed
    /\ Len(stream_matches[last.stream]) < Len(InitialStreamMatches[last.stream])
    /\ ~(/\ stream_matches[last.stream] # <<>>
         /\ Tiles(raw_streams[last.stream], stream_matches[last.stream]))

(* C6: outlier-search floor.  discard_outliers() on a stream with fewer    *)
(* than 3 matches returns False and leaves the match list as it was.       *)
OutlierFloor ==
    (last.op = "discard_outliers" /\ Len(last.before) < 3) =>
        /\ ~last.ret
        /\ last.error = ""
        /\ stream_matches[last.stream] = last.before

\* discard_outliers() has just been called on a stream with exactly two
\* matches, each of which would validate alone
OutlierFloorWitness ==
    /\ last.op = "discard_outliers"
    /\ Len(last.before) = 2
    /\ \A k \in 1..2 : Tiles(raw_streams[last.stream], <<last.before[k]>>)

\* run() has emitted the word w as an individual token of its own
EmittedIndividually(w) ==
    /\ w \in Unclaimed
    /\ Len(ret_words) >= Len(resolved) + Cardinality({ v \in Unclaimed : v <= w })
    /\ ret_words[Len(resolved) + Cardinality({ v \in Unclaimed : v <= w })] = words[w]

\* after the matching step the stream s has 2 matches that fail validation
TwoFailingMatches(s) ==
    /\ Len(InitialStreamMatches[s]) = 2
    /\ ~Tiles(raw_streams[s], InitialStreamMatches[s])

\* no other resolved stream references a word the stream s matched
NotConsumedElsewhere(s) ==
    \A w \in Indices(InitialStreamMatches[s]) :
        \A s2 \in can_merge_streams \ {s} : w \notin Indices(stream_matches[s2])

(* C7, scenario D as claimed: whenever a stream has 2 candidate matches    *)
(* that fail validation, run() leaves it unresolved and both words appear  *)
(* individually in the output.                                             *)
ScenarioDUnresolved ==
    pc = "done" =>
        \A s \in 1..Len(raw_streams) :
            TwoFailingMatches(s) =>
                /\ s \notin can_merge_streams
                /\ \A w \in Indices(InitialStreamMatches[s]) : EmittedIndividually(w)

(* C7 as amended: whenever a stream has 2 candidate matches that fail      *)
(* validation and none of its words is consumed by the merge of another    *)
(* stream, run() leaves it unresolved and both words appear individually   *)
(* in the output.                                                          *)
ScenarioDUnresolvedUnlessPruned ==
    pc = "done" =>
        \A s \in 1..Len(raw_streams) :
            (TwoFailingMatches(s) /\ NotConsumedElsewhere(s)) =>
                /\ s \notin can_merge_streams
                /\ \A w \in Indices(InitialStreamMatches[s]) : EmittedIndividually(w)

\* run() has finished on a page with a stream of 2 failing matches of two
\* different words, neither consumed by another stream
ScenarioDWitness ==
    /\ pc = "done"
    /\ \E s \in 1..Len(raw_streams) :
        /\ TwoFailingMatches(s)
        /\ NotConsumedElsewhere(s)
        /\ Cardinality(Indices(InitialStreamMatches[s])) = 2

\* the page of scenario C: the stream "a b c", the words "a", "b", "c", two
\* of them on a horizontal line (R1, R2) and the third far off it (R3)
ScenarioC ==
    /\ raw_streams = <<StreamABC>>
    /\ Len(words) = 3
    /\ words[1].t = TextA /\ words[2].t = TextB /\ words[3].t = TextC
    /\ { Rectangle(words[w]) : w \in 1..3 } = {R1, R2, R3}

Outlier == CHOOSE w \in 1..3 : Rectangle(words[w]) = R3

(* C8, scenario C as claimed: the outlier search selects the 2-element     *)
(* subsequence excluding the outlier, and the discarded word remains       *)
(* unmerged in the output of run().                                        *)
ScenarioCDropsOutlier ==
    (pc = "done" /\ ScenarioC) =>
        /\ 1 \in can_merge_streams
        /\ Len(stream_matches[1]) = 2
        /\ Indices(stream_matches[1]) = (1..3) \ {Outlier}
        /\ EmittedIndividually(Outlier)

(* C8 as amended: in scenario C the full match set validates, so run()     *)
(* never runs the outlier search: all three words, the one off the line    *)
(* included, are merged into one token "a b c" with the union of the three *)
(* rectangles and no word is left in the output; no 2-element subsequence  *)
(* validates, so the outlier search would return failure.                  *)
ScenarioCMergesAll ==
    ScenarioC =>
        /\ ~last.searched
        /\ \A p \in Picks(3) : ~Tiles(StreamABC, PickSeq(InitialStreamMatches[1], p))
        /\ ~DiscardOutliers(words, StreamABC, InitialStreamMatches[1]).ret
        /\ pc = "done" =>
            /\ resolved = <<1>>
            /\ Indices(stream_matches[1]) = 1..3
            /\ Len(stream_matches[1]) = 3
            /\ Unclaimed = {}
            /\ ret_words = <<[t |-> StreamABC, x |-> EnclosingRect(1..3).x,
                              y |-> EnclosingRect(1..3).y,
                              w |-> EnclosingRect(1..3).w,
                              h |-> EnclosingRect(1..3).h]>>

\* run() has finished on scenario C with the word "c" off the line
ScenarioCWitness ==
    /\ pc = "done"
    /\ ScenarioC
    /\ Outlier = 3
    /\ Len(ret_words) = 1

(* C9: termination of the merge driver.  run() always comes to a pass that *)
(* resolves no stream and then returns (no exception takes it out of the   *)
(* loop: every state other than "done" has a next step); every pass that   *)
(* does not end the loop has resolved at least one stream; no stream is    *)
(* committed twice.                                                        *)
RunReachesFixedPoint ==
    /\ pc # "crashed"
    /\ (pc = "while" /\ keep_merging) => Cardinality(can_merge_streams) >= passes
    /\ \A i, j \in 1..Len(resolved) : i # j => resolved[i] # resolved[j]

(* C10, as claimed: the number of passes of the loop is at most the number *)
(* of streams.                                                             *)
PassBoundStreams == passes <= Len(raw_streams)

(* C10 as amended: the number of passes of the loop is at most the number  *)
(* of streams plus one (the last pass resolves nothing).                   *)
PassBoundStreamsPlusOne == passes <= Len(raw_streams) + 1

\* run() has finished after resolving one stream in each pass but the last
PassBoundWitness ==
    /\ pc = "done"
    /\ Len(raw_streams) >= 2
    /\ passes = Len(raw_streams) + 1

----------------------------------------------------------------------------
(* Vocabulary of the outlier search                                        *)

\* the step just taken ran discard_outliers() on a stream of run()
Searched == last.op = "visit" /\ last.searched

\* the order-preserving picks of length 2..n-1 of the match list that tile
\* the stream
ValidPicks(stream, matches) ==
    { p \in AllPicks(Len(matches)) :
        /\ Len(p) >= 2
        /\ Len(p) <= Len(matches) - 1
        /\ Tiles(stream, PickSeq(matches, p)) }

\* the x-coordinate of the centroid of the word the match points at
CentroidX(m) == words[m.index].x + words[m.index].w \div 2

CentroidY(m) == words[m.index].y + words[m.index].h \div 2

\* the centroids of the picked matches all have the same x-coordinate, which
\* is when sum((x - mean_x)^2) is 0
ZeroDenominator(matches, p) ==
    \A i, j \in 1..Len(p) : CentroidX(matches[p[i]]) = CentroidX(matches[p[j]])

(* C11: degenerate regression, as claimed.  When the outlier search meets  *)
(* a validating subsequence whose centroid x-coordinates give a zero       *)
(* regression denominator, it skips it and returns normally: no exception  *)
(* leaves discard_outliers(), and it returns success iff some validating   *)
(* subsequence with a non-zero denominator is left.                        *)
DegenerateSubsequenceSkipped ==
    LET stream == raw_streams[last.stream]
        valid == ValidPicks(stream, last.before)
    IN  (/\ Searched
         /\ Len(last.before) >= 3
         /\ \E p \in valid : ZeroDenominator(last.before, p))
        => /\ last.error = ""
           /\ last.ret <=> \E p \in valid : ~ZeroDenominator(last.before, p)

(* C12: outlier search result, as claimed.  For a stream with n >= 3       *)
(* matches, discard_outliers() returns success iff at least one            *)
(* order-preserving subsequence of length 2..n-1 of the match list passes  *)
(* the validator; on success the match list becomes such a subsequence     *)
(* (and may_merge() is then true), on failure it is unchanged.             *)
OutlierSearchResult ==
    LET stream == raw_streams[last.stream]
        valid == ValidPicks(stream, last.before)
        after == stream_matches[last.stream]
    IN  (Searched /\ Len(last.before) >= 3)
        => /\ last.error = ""
           /\ last.ret <=> valid # {}
           /\ last.ret => /\ \E p \in valid : after = PickSeq(last.before, p)
                          /\ may_merge[last.stream]
           /\ ~last.ret => after = last.before

(* The score |mean_y - b * mean_x| of a sequence of matches as the fraction *)
(* FitNum / FitDen, from the sums of the least-squares fit of centroid-y   *)
(* against centroid-x: with n points, b = Sxy / Sxx where                  *)
(* Sxy = n * sum(x * y) - sum(x) * sum(y), Sxx = n * sum(x^2) - sum(x)^2.  *)
FitSums(ms) ==
    LET n == Len(ms)
        sx == SumSeq([k \in 1..n |-> CentroidX(ms[k])])
        sy == SumSeq([k \in 1..n |-> CentroidY(ms[k])])
        sxx == SumSeq([k \in 1..n |-> CentroidX(ms[k]) * CentroidX(ms[k])])
        sxy == SumSeq([k \in 1..n |-> CentroidX(ms[k]) * CentroidY(ms[k])])
    IN  [n |-> n, sx |-> sx, sy |-> sy,
         Sxx |-> n * sxx - sx * sx, Sxy |-> n * sxy - sx * sy]

FitNum(ms) == LET f == FitSums(ms) IN Abs(f.sy * f.Sxx - f.Sxy * f.sx)

FitDen(ms) == LET f == FitSums(ms) IN f.n * f.Sxx

\* the score of u is strictly smaller than the score of v
FitLess(u, v) == FitNum(u) * FitDen(v) < FitNum(v) * FitDen(u)

(* C13: outlier search fitness.  When discard_outliers() succeeds, no      *)
(* order-preserving subsequence of length 2..n-1 of the former match list  *)
(* that passes the validator has a strictly smaller score                  *)
(* |mean_y - b * mean_x| than the subsequence kept, whatever its length.   *)
OutlierSearchFitness ==
    LET stream == raw_streams[last.stream]
        valid == ValidPicks(stream, last.before)
        kept == stream_matches[last.stream]
    IN  (Searched /\ last.ret)
        => /\ FitDen(kept) > 0
           /\ \A p \in valid :
                /\ FitDen(PickSeq(last.before, p)) > 0
                /\ ~FitLess(PickSeq(last.before, p), kept)

\* a successful search that kept a subsequence with a strictly smaller score
\* than a shorter validating subsequence, which the search met before it
OutlierSearchFitnessWitness ==
    /\ Searched
    /\ last.ret
    /\ \E p \in ValidPicks(raw_streams[last.stream], last.before) :
        /\ Len(p) < Len(stream_matches[last.stream])
        /\ FitLess(stream_matches[last.stream], PickSeq(last.before, p))

----------------------------------------------------------------------------
(* Vocabulary of the merge commit                                          *)

\* the match list is not empty and tiles the stream
Validates(stream, matches) == matches # <<>> /\ Tiles(stream, matches)

\* the step is a call of _merge_words_of_stream(s) that raised
\* RawTextPreprocessorException, changed no match list and returned no token
RefusedMerge(s) ==
    /\ last'.error = "RawTextPreprocessorException"
    /\ last'.token = <<>>
    /\ word_matches' = word_matches
    /\ stream_matches' = stream_matches

(* C14, invalid merge attempt as claimed: _merge_words_of_stream called on *)
(* a stream whose current match set does not validate raises               *)
(* RawTextPreprocessorException, changes no word's or stream's match list  *)
(* and returns no token.                                                   *)
InvalidMergeRaises ==
    [][\A s \in 1..Len(raw_streams) :
          (/\ last'.op = "merge"
           /\ last'.stream = s
           /\ ~Validates(raw_streams[s], stream_matches[s]))
          => RefusedMerge(s)]_vars

(* C14 as amended: _merge_words_of_stream called on a stream whose         *)
(* _may_merge flag is not set and whose current match set does not         *)
(* validate raises RawTextPreprocessorException, changes no word's or      *)
(* stream's match list and returns no token.                               *)
InvalidMergeRaisesUnlessCached ==
    [][\A s \in 1..Len(raw_streams) :
          (/\ last'.op = "merge"
           /\ last'.stream = s
           /\ ~may_merge[s]
           /\ ~Validates(raw_streams[s], stream_matches[s]))
          => RefusedMerge(s)]_vars

\* _merge_words_of_stream has just refused a stream that has two matches or
\* more, while another stream has been merged before
InvalidMergeWitness ==
    /\ last.op = "merge"
    /\ last.error = "RawTextPreprocessorException"
    /\ Len(last.before) >= 2
    /\ \E s \in 1..Len(raw_streams) : s # last.stream /\ may_merge[s]

(* C15: the invalid-merge error is unreachable through run().  In every    *)
(* execution of run() no RawTextPreprocessorException (and no IndexError   *)
(* of the first-word lookup) is raised; each commit is performed on a      *)
(* stream whose match list at that moment is not empty and validates; and  *)
(* the _may_merge flag is set for the resolved streams only, so the guard  *)
(* of the commit never answers from a stale cache.                         *)
MergeErrorUnreachable ==
    /\ last.error \notin {"RawTextPreprocessorException", "IndexError"}
    /\ Committed =>
            Validates(raw_streams[last.stream], stream_matches[last.stream])
    /\ \A s \in 1..Len(raw_streams) : may_merge[s] <=> s \in can_merge_streams

\* a commit of a stream that failed validation after the matching step and
\* validates now without an outlier search: the commit of another stream has
\* pruned its match list
MergeErrorUnreachableWitness ==
    /\ Committed
    /\ ~last.ret
    /\ ~Validates(raw_streams[last.stream], InitialStreamMatches[last.stream])
    /\ Len(stream_matches[last.stream]) < Len(InitialStreamMatches[last.stream])

\* the match lists of the words right after the matching step
InitialWordMatches == AssociateWords(words, raw_streams)

(* C16: commit pruning postcondition.  Right after a merge is committed    *)
(* for stream s, no other stream's match list references a word index      *)
(* consumed by s, every consumed word's own match list holds only matches  *)
(* that point at s, and the match lists of the words that were not         *)
(* consumed and of the other streams that referenced no consumed word are  *)
(* as they were before.                                                    *)
CommitPrunes ==
    [][(last'.op = "visit" /\ last'.token # <<>>) =>
          LET s == last'.stream
              consumed == Indices(stream_matches'[s])
              others == (1..Len(raw_streams)) \ {s}
          IN  /\ \A s2 \in others : Indices(stream_matches'[s2]) \cap consumed = {}
              /\ \A w \in consumed :
                    \A k \in 1..Len(word_matches'[w]) : word_matches'[w][k].index = s
              /\ \A w \in (1..Len(words)) \ consumed :
                    word_matches'[w] = word_matches[w]
              /\ \A s2 \in others :
                    Indices(stream_matches[s2]) \cap consumed = {}
                        => stream_matches'[s2] = stream_matches[s2]]_vars

\* a commit has just been made of words that also matched another stream,
\* which still has matches of other words, while a word that was not
\* consumed has matches too
CommitPrunesWitness ==
    /\ Committed
    /\ \E w \in Indices(stream_matches[last.stream]) :
            Len(word_matches[w]) < Len(InitialWordMatches[w])
    /\ \E s2 \in (1..Len(raw_streams)) \ {last.stream} :
        /\ stream_matches[s2] # <<>>
        /\ Len(stream_matches[s2]) < Len(InitialStreamMatches[s2])
    /\ \E w \in (1..Len(words)) \ Indices(stream_matches[last.stream]) :
            word_matches[w] # <<>>

----------------------------------------------------------------------------
(* Vocabulary of the matching step                                         *)

\* the offsets at which the text t occurs as a contiguous part of the stream
Occurrences(stream, t) ==
    { i \in 0..(Len(stream) - Len(t)) : SubSeq(stream, i + 1, i + Len(t)) = t }

\* the entries of a match list that point at the index ix, in their order
PointingAt(matches, ix) ==
    LET points(m) == m.index = ix IN SelectSeq(matches, points)

\* one match per occurrence, in ascending order of the offsets
OneEach(ix, offsets, len) ==
    [k \in 1..Cardinality(offsets) |->
        [index |-> ix, start |-> SortedSeq(offsets)[k],
         end |-> SortedSeq(offsets)[k] + len]]

(* C17: the matching step.  After construction, for every word with a      *)
(* non-empty text and every stream, the matches recorded on the stream for *)
(* the word and on the word for the stream are exactly one per offset at   *)
(* which the word's text occurs in the stream, overlapping occurrences     *)
(* included, in ascending order, each with the interval                    *)
(* [i, i + len(text)); nothing else is recorded.                           *)
MatchingStepExact ==
    pc = "while" =>
        /\ \A s \in 1..Len(raw_streams) : \A w \in 1..Len(words) :
            words[w].t # <<>> =>
                LET offsets == Occurrences(raw_streams[s], words[w].t)
                IN  /\ PointingAt(stream_matches[s], w)
                            = OneEach(w, offsets, Len(words[w].t))
                    /\ PointingAt(word_matches[w], s)
                            = OneEach(s, offsets, Len(words[w].t))
        /\ \A s \in 1..Len(raw_streams) :
                Indices(stream_matches[s]) \subseteq 1..Len(words)
        /\ \A w \in 1..Len(words) :
                Indices(word_matches[w]) \subseteq 1..Len(raw_streams)

\* the matching step has recorded two occurrences of one word in one stream
\* that overlap, next to the matches of another word
MatchingStepWitness ==
    /\ pc = "while"
    /\ \E s \in 1..Len(raw_streams) :
        /\ \E i, j \in 1..Len(stream_matches[s]) :
            /\ stream_matches[s][i].index = stream_matches[s][j].index
            /\ stream_matches[s][i].start < stream_matches[s][j].start
            /\ stream_matches[s][j].start < stream_matches[s][i].end
        /\ Cardinality(Indices(stream_matches[s])) >= 2

----------------------------------------------------------------------------
(* C18: once a stream has been resolved, no later step of run() (commit of *)
(* another stream, outlier search) changes its match list, so the list the *)
(* merged rectangle was computed from is the list that decides at the end  *)
(* of run() which words are withheld from the output.                      *)
ResolvedListFrozen ==
    [][\A s \in can_merge_streams : stream_matches'[s] = stream_matches[s]]_vars

\* a stream has just been committed that matched, after the matching step,
\* a word of a stream resolved before it, which holds two matches or more
ResolvedListFrozenWitness ==
    /\ Committed
    /\ \E s \in can_merge_streams \ {last.stream} :
        /\ Indices(InitialStreamMatches[s])
                \cap Indices(InitialStreamMatches[last.stream]) # {}
        /\ Len(stream_matches[s]) >= 2

(* C19: fixed point at termination.  When the loop of run() has stopped,   *)
(* every unresolved stream fails the validator against its current match   *)
(* list, and either that list has fewer than 3 matches or none of its      *)
(* order-preserving subsequences of length 2..n-1 validates: no stream     *)
(* that could still be merged is left unmerged.                            *)
FixedPointAtTermination ==
    (pc = "done" \/ (pc = "while" /\ ~keep_merging)) =>
        \A s \in (1..Len(raw_streams)) \ can_merge_streams :
            /\ ~Validates(raw_streams[s], stream_matches[s])
            /\ \/ Len(stream_matches[s]) < 3
               \/ ValidPicks(raw_streams[s], stream_matches[s]) = {}

\* run() has finished with an unresolved stream that had three matches or
\* more after the matching step and has lost some, not all, of them to a
\* stream visited after it
FixedPointWitness ==
    /\ pc = "done"
    /\ \E s \in (1..Len(raw_streams)) \ can_merge_streams :
        /\ Len(InitialStreamMatches[s]) >= 3
        /\ stream_matches[s] # <<>>
        /\ Len(stream_matches[s]) < Len(InitialStreamMatches[s])
        /\ \E s2 \in can_merge_streams : s < s2

(* C20: a stream with an empty match list never validates, also when its   *)
(* string is empty, and run() never resolves it: its flag is never set,    *)
(* every resolved stream has a match, every merged token has at least one  *)
(* constituent word, and the lookup of the first word never fails.         *)
EmptyListNeverResolved ==
    /\ \A s \in 1..Len(raw_streams) :
        stream_matches[s] = <<>> =>
            /\ ~MayReconstructBy(raw_streams[s], stream_matches[s])
            /\ ~may_merge[s]
            /\ s \notin can_merge_streams
    /\ Committed => Indices(stream_matches[last.stream]) # {}
    /\ last.error # "IndexError"

\* run() has finished and resolved a stream, leaving unresolved a stream
\* whose string is empty and which has no match
EmptyListWitness ==
    /\ pc = "done"
    /\ can_merge_streams # {}
    /\ \E s \in (1..Len(raw_streams)) \ can_merge_streams :
        /\ stream_matches[s] = <<>>
        /\ raw_streams[s] = <<>>

====
